---- MODULE Spec2Model ----
(***************************************************************************)
(* Model of the MediPhys QC auditor (main.py): the QualityControlEngine    *)
(* (rule lookup, check_compliance, analyze_drift) and the batch run of     *)
(* main(): load, per-row compliance pass, per-group drift pass, report.    *)
(*                                                                         *)
(* Values, targets and tolerances are integers (exact arithmetic); a       *)
(* regression slope is kept as the exact fraction num/den.  Dates are      *)
(* whole calendar days, numbered from 0.                                   *)
(***************************************************************************)
EXTENDS Integers, Sequences, FiniteSets, TLC

VARIABLES
    pc,            \* position of the run / of the single call
    config_file,   \* what --config points to
    input_file,    \* what --input points to
    rules,         \* engine.rules: machine -> metric -> rule
    df,            \* the data frame rows, in file order
    results,       \* the list built by the compliance loop
    QC_Status,     \* the QC_Status column attached to df
    groups,        \* groups of df.groupby still to be visited, in iteration order
    visited,       \* groups the trend loop has already taken
    analyzed,      \* groups analyze_drift has been called on, in call order
    drift_alerts,  \* engine.drift_alerts
    exit_code,     \* process exit status, -1 while running
    sinks,         \* what reached the database and the Excel report
    args,          \* arguments of a single call (call-level specifications)
    ret            \* outcome of a single call (call-level specifications)

vars == <<pc, config_file, input_file, rules, df, results, QC_Status, groups,
          visited, analyzed, drift_alerts, exit_code, sinks, args, ret>>

----------------------------------------------------------------------------
(* Bounds of the model *)

MaxExtra  == 0   \* a series has at most MinPoints + MaxExtra records
MaxGap    == 1   \* days between consecutive records of a series: 0..MaxGap
MaxVal    == 1   \* values of a series given to analyze_drift: 0..MaxVal
MaxTarget == 1   \* numeric rule targets: 0..MaxTarget
MaxTol    == 1   \* rule tolerances: -1..MaxTol
MaxValue  == 3   \* values given to check_compliance: 0..MaxValue

(* Program constants *)

MinPoints    == 5    \* len(values) < 5
ThresholdNum == 1    \* abs(slope) > 0.1, as the fraction 1/10
ThresholdDen == 10

----------------------------------------------------------------------------
(* Machines and metrics.  The sequences give Python's string order, which  *)
(* is the order df.groupby(['Machine_ID', 'Metric']) iterates in.          *)

MachineOrder == <<"CT_Scanner_A", "Linac_1">>
MetricOrder  == <<"Dose_Output", "Water_HU">>

Machines == {MachineOrder[i] : i \in DOMAIN MachineOrder}
Metrics  == {MetricOrder[i] : i \in DOMAIN MetricOrder}
Keys     == Machines \X Metrics

KeyOrder ==
    [i \in 1..(Len(MachineOrder) * Len(MetricOrder)) |->
        <<MachineOrder[((i - 1) \div Len(MetricOrder)) + 1],
          MetricOrder[((i - 1) % Len(MetricOrder)) + 1]>>]

Rank(key) == CHOOSE i \in DOMAIN KeyOrder : KeyOrder[i] = key

----------------------------------------------------------------------------
(* Rules and the configuration document *)

Num(n)     == [type |-> "number", val |-> n]
NonNumeric == [type |-> "str", val |-> 0]

Rule(target, tol) == [target |-> target, tolerance_abs |-> tol]

\* The mapping yaml.safe_load returns for a document that configures the
\* keys of S, each with rule r.
RulesDoc(S, r) ==
    [m \in {k[1] : k \in S} |-> [x \in {k[2] : k \in {j \in S : j[1] = m}} |-> r]]

NoRules == RulesDoc({}, Rule(Num(0), 0))

HasRule(rs, machine, metric) ==
    /\ machine \in DOMAIN rs
    /\ metric \in DOMAIN rs[machine]

----------------------------------------------------------------------------
(* Compliance results: "PASS", "FAIL (Dev: d)", "UNKNOWN_CONFIG"; TypeError *)
(* stands for the exception value - target raises on a non-numeric target.  *)

Pass          == [status |-> "PASS", dev |-> 0]
Fail(d)       == [status |-> "FAIL", dev |-> d]
UnknownConfig == [status |-> "UNKNOWN_CONFIG", dev |-> 0]
TypeError     == [status |-> "TypeError", dev |-> 0]

Abs(x) == IF x < 0 THEN -x ELSE x

check_compliance_GE(rs, machine, metric, value) ==
    IF ~HasRule(rs, machine, metric) THEN UnknownConfig
    ELSE LET rule   == rs[machine][metric]
             target == rule.target
             tol    == rule.tolerance_abs
         IN  IF target.type # "number" THEN TypeError
             ELSE LET diff == Abs(value - target.val)
                  IN  IF diff >= tol THEN Fail(diff) ELSE Pass

check_compliance_MachineOnly(rs, machine, metric, value) ==
    IF machine \notin DOMAIN rs THEN UnknownConfig
    ELSE LET m      == IF metric \in DOMAIN rs[machine] THEN metric
                       ELSE CHOOSE x \in DOMAIN rs[machine] : TRUE
             rule   == rs[machine][m]
             target == rule.target
             tol    == rule.tolerance_abs
         IN  IF target.type # "number" THEN TypeError
             ELSE LET diff == Abs(value - target.val)
                  IN  IF diff > tol THEN Fail(diff) ELSE Pass

check_compliance(rs, machine, metric, value) ==
    IF ~HasRule(rs, machine, metric) THEN UnknownConfig
    ELSE LET rule   == rs[machine][metric]
             target == rule.target
             tol    == rule.tolerance_abs
         IN  IF target.type # "number" THEN TypeError
             ELSE LET diff == Abs(value - target.val)
                  IN  IF diff > tol THEN Fail(diff) ELSE Pass

----------------------------------------------------------------------------
(* Specification of a single check_compliance call on an engine whose      *)
(* rules were loaded from any configuration of the family below.           *)

Targets    == {Num(n) : n \in 0..MaxTarget} \cup {NonNumeric}
Tolerances == (-1)..MaxTol
RuleValues == {Rule(t, tol) : t \in Targets, tol \in Tolerances}
RuleDocs   == {RulesDoc(S, r) : S \in SUBSET Keys, r \in RuleValues}

NoCall   == [machine |-> "", metric |-> "", value |-> 0]
NoReturn == [status |-> "", dev |-> 0]

InitCompliance ==
    /\ pc = "call"
    /\ rules \in RuleDocs
    /\ args \in [machine : Machines, metric : Metrics, value : 0..MaxValue]
    /\ ret = NoReturn
    /\ config_file = "" /\ input_file = ""
    /\ df = <<>> /\ results = <<>> /\ QC_Status = <<>>
    /\ groups = <<>> /\ visited = <<>> /\ analyzed = <<>>
    /\ drift_alerts = <<>>
    /\ exit_code = -1
    /\ sinks = {}

CallCheckCompliance ==
    /\ pc = "call"
    /\ ret' = check_compliance(rules, args.machine, args.metric, args.value)
    /\ pc' = "returned"
    /\ UNCHANGED <<config_file, input_file, rules, df, results, QC_Status, groups,
                   visited, analyzed, drift_alerts, exit_code, sinks, args>>

NextCompliance == CallCheckCompliance

SpecCompliance == InitCompliance /\ [][NextCompliance]_vars

----------------------------------------------------------------------------
(* C1: for a configured rule with a numeric target and tolerance_abs >= 0, *)
(* check_compliance returns FAIL iff |value - target| > tolerance_abs and  *)
(* PASS iff |value - target| <= tolerance_abs; a deviation equal to the    *)
(* tolerance passes.                                                       *)

ArgRule == rules[args.machine][args.metric]

ValidRuleCall ==
    /\ pc = "returned"
    /\ HasRule(rules, args.machine, args.metric)
    /\ ArgRule.target.type = "number"
    /\ ArgRule.tolerance_abs >= 0

ArgDeviation == Abs(args.value - ArgRule.target.val)

C1_FailIffDeviationExceedsTolerance ==
    ValidRuleCall =>
        /\ (ret.status = "FAIL") <=> (ArgDeviation > ArgRule.tolerance_abs)
        /\ (ret.status = "PASS") <=> (ArgDeviation <= ArgRule.tolerance_abs)
        /\ ret.status = "FAIL" => ret.dev = ArgDeviation

C1_Witness ==
    /\ ValidRuleCall
    /\ ArgRule.tolerance_abs > 0
    /\ ArgDeviation = ArgRule.tolerance_abs
    /\ ret = Pass

(* C2: check_compliance returns UNKNOWN_CONFIG iff the rule store has no   *)
(* rule for (machine, metric), whatever the value.                         *)

C2_UnknownConfigIffNoRule ==
    pc = "returned" =>
        ((ret = UnknownConfig) <=>
            ~(\E m \in DOMAIN rules : \E x \in DOMAIN rules[m] :
                m = args.machine /\ x = args.metric))

C2_Witness ==
    /\ pc = "returned"
    /\ args.machine \in DOMAIN rules
    /\ args.metric \notin DOMAIN rules[args.machine]
    /\ args.value > 0
    /\ ret = UnknownConfig

----------------------------------------------------------------------------
(* Drift analysis.  dates and values are the group's Date and Value        *)
(* columns, in row order.                                                  *)

RECURSIVE SumSeq(_)
SumSeq(s) == IF s = <<>> THEN 0 ELSE Head(s) + SumSeq(Tail(s))

MinOf(s) == CHOOSE x \in {s[i] : i \in DOMAIN s} : \A j \in DOMAIN s : x <= s[j]

\* (dates - dates.min()).dt.days
DaysSinceFirst(dates) == [i \in DOMAIN dates |-> dates[i] - MinOf(dates)]

\* What linregress does when every x is the same (the regression denominator
\* is zero) depends on the installed scipy: it raises ValueError, or it
\* divides 0 by 0 and returns a NaN slope.
LinregressDegenerate == {"ValueError", "nan"}

\* scipy.stats.linregress(x, y).slope as the fraction num/den, both scaled by
\* n^2: num = n*Sxy - Sx*Sy, den = n*Sxx - Sx^2.
linregress(x, y, degenerate) ==
    LET n   == Len(x)
        sx  == SumSeq(x)
        sy  == SumSeq(y)
        sxy == SumSeq([i \in DOMAIN x |-> x[i] * y[i]])
        sxx == SumSeq([i \in DOMAIN x |-> x[i] * x[i]])
        den == n * sxx - sx * sx
        num == n * sxy - sx * sy
    IN  IF \A i \in DOMAIN x : x[i] = x[1]
        THEN [kind |-> degenerate, num |-> 0, den |-> 1]
        ELSE [kind |-> "slope", num |-> num, den |-> den]

\* abs(slope) > 0.1 for slope = num/den, den > 0; a NaN compares False.
SlopeTooSteep(fit) ==
    /\ fit.kind = "slope"
    /\ ThresholdDen * Abs(fit.num) > ThresholdNum * fit.den

\* The alert message: it names the machine, the metric and the slope.
AlertMsg(machine, metric, fit) ==
    [machine |-> machine, metric |-> metric, num |-> fit.num, den |-> fit.den]

analyze_drift_MinFour(alerts, dates, values, machine, metric, degenerate) ==
    IF Len(values) < MinPoints - 1 \/ Len(values) = 0
    THEN [alerts |-> alerts, raised |-> FALSE]
    ELSE LET fit == linregress(DaysSinceFirst(dates), values, degenerate)
         IN  IF fit.kind = "ValueError"
             THEN [alerts |-> alerts, raised |-> TRUE]
             ELSE IF SlopeTooSteep(fit)
                  THEN [alerts |-> Append(alerts, AlertMsg(machine, metric, fit)),
                        raised |-> FALSE]
                  ELSE [alerts |-> alerts, raised |-> FALSE]

analyze_drift_GE(alerts, dates, values, machine, metric, degenerate) ==
    IF Len(values) < MinPoints
    THEN [alerts |-> alerts, raised |-> FALSE]
    ELSE LET fit == linregress(DaysSinceFirst(dates), values, degenerate)
         IN  IF fit.kind = "ValueError"
             THEN [alerts |-> alerts, raised |-> TRUE]
             ELSE IF fit.kind = "slope"
                     /\ ThresholdDen * Abs(fit.num) >= ThresholdNum * fit.den
                  THEN [alerts |-> Append(alerts, AlertMsg(machine, metric, fit)),
                        raised |-> FALSE]
                  ELSE [alerts |-> alerts, raised |-> FALSE]

\* The effect of engine.analyze_drift(dates, values, machine, metric) on
\* engine.drift_alerts, and whether the call raises.
analyze_drift(alerts, dates, values, machine, metric, degenerate) ==
    IF Len(values) < MinPoints
    THEN [alerts |-> alerts, raised |-> FALSE]
    ELSE LET fit == linregress(DaysSinceFirst(dates), values, degenerate)
         IN  IF fit.kind = "ValueError"
             THEN [alerts |-> alerts, raised |-> TRUE]
             ELSE IF SlopeTooSteep(fit)
                  THEN [alerts |-> Append(alerts, AlertMsg(machine, metric, fit)),
                        raised |-> FALSE]
                  ELSE [alerts |-> alerts, raised |-> FALSE]

----------------------------------------------------------------------------
(* Specification of a single analyze_drift call on a fresh engine, for any *)
(* series of up to MinPoints + MaxExtra records.                           *)

RECURSIVE DatesFromGaps(_)
DatesFromGaps(gaps) ==
    IF gaps = <<>> THEN <<0>>
    ELSE LET d == DatesFromGaps(SubSeq(gaps, 1, Len(gaps) - 1))
         IN  Append(d, d[Len(d)] + gaps[Len(gaps)])

DateColumns(n) ==
    IF n = 0 THEN {<<>>}
    ELSE {DatesFromGaps(g) : g \in [1..(n - 1) -> 0..MaxGap]}

DriftCalls ==
    UNION {[dates : DateColumns(n), values : [1..n -> 0..MaxVal],
            machine : {"CT_Scanner_A"}, metric : {"Water_HU"}] :
           n \in 0..(MinPoints + MaxExtra)}

InitDrift ==
    /\ pc = "call"
    /\ args \in DriftCalls
    /\ ret = "pending"
    /\ drift_alerts = <<>>
    /\ rules = RulesDoc({<<"CT_Scanner_A", "Water_HU">>}, Rule(Num(0), 1))
    /\ config_file = "" /\ input_file = ""
    /\ df = <<>> /\ results = <<>> /\ QC_Status = <<>>
    /\ groups = <<>> /\ visited = <<>> /\ analyzed = <<>>
    /\ exit_code = -1
    /\ sinks = {}

CallAnalyzeDrift ==
    /\ pc = "call"
    /\ \E degenerate \in LinregressDegenerate :
        LET out == analyze_drift(drift_alerts, args.dates, args.values,
                                 args.machine, args.metric, degenerate)
        IN  /\ drift_alerts' = out.alerts
            /\ ret' = IF out.raised THEN "ValueError" ELSE "returned"
    /\ pc' = "returned"
    /\ UNCHANGED <<config_file, input_file, rules, df, results, QC_Status, groups,
                   visited, analyzed, exit_code, sinks, args>>

NextDrift == CallAnalyzeDrift

SpecDrift == InitDrift /\ [][NextDrift]_vars

----------------------------------------------------------------------------
(* The ordinary-least-squares slope of the claim, from the centred sums    *)
(* Sum (x_i - mean x)(y_i - mean y) / Sum (x_i - mean x)^2, each deviation *)
(* scaled by n to stay in the integers.                                    *)

ArgN == Len(args.values)

ArgOffsets ==
    [i \in 1..ArgN |-> args.dates[i] - MinOf(args.dates)]

CentredX(i) == ArgN * ArgOffsets[i] - SumSeq(ArgOffsets)
CentredY(i) == ArgN * args.values[i] - SumSeq(args.values)

OlsNum == SumSeq([i \in 1..ArgN |-> CentredX(i) * CentredY(i)])
OlsDen == SumSeq([i \in 1..ArgN |-> CentredX(i) * CentredX(i)])

AllSameDay == \A i, j \in 1..ArgN : args.dates[i] = args.dates[j]

(* C4: for a group of at least 5 records whose dates are not all the same  *)
(* day, analyze_drift produces an alert iff |slope| > 0.1 for the OLS      *)
(* slope over whole-day offsets from the minimum date; |slope| = 0.1       *)
(* produces no alert.                                                      *)

C4_AlertIffSlopeExceedsThreshold ==
    (pc = "returned" /\ ArgN >= 5 /\ ~AllSameDay) =>
        /\ ret = "returned"
        /\ (Len(drift_alerts) = 1) <=> (10 * Abs(OlsNum) > OlsDen)
        /\ (Len(drift_alerts) = 0) <=> (10 * Abs(OlsNum) <= OlsDen)
        /\ Len(drift_alerts) = 1 =>
              /\ drift_alerts[1].machine = args.machine
              /\ drift_alerts[1].metric = args.metric
              /\ drift_alerts[1].num * OlsDen = OlsNum * drift_alerts[1].den

C4_Witness ==
    /\ pc = "returned" /\ ArgN >= 5 /\ ~AllSameDay
    /\ 10 * Abs(OlsNum) = OlsDen
    /\ drift_alerts = <<>>

(* C5: for every group with fewer than 5 records, whatever its dates and   *)
(* values, analyze_drift produces no alert and raises no error.            *)

C5_NoDecisionBelowFiveRecords ==
    (pc = "returned" /\ ArgN < 5) =>
        /\ ret = "returned"
        /\ drift_alerts = <<>>

C5_Witness ==
    /\ pc = "returned" /\ ArgN = 4 /\ ~AllSameDay
    /\ 10 * Abs(OlsNum) > OlsDen
    /\ ret = "returned"
    /\ drift_alerts = <<>>

(* C6: for a group of at least 5 records that all fall on the same day,    *)
(* analyze_drift returns no alert and raises no error.                     *)

C6_SameDayGroupIsNonFatal ==
    (pc = "returned" /\ ArgN >= 5 /\ AllSameDay) =>
        /\ ret = "returned"
        /\ drift_alerts = <<>>

----------------------------------------------------------------------------
(* The batch run of main().  The inputs are the file --config points to    *)
(* and the file --input points to.                                         *)

ConfigFile(kind, doc) == [kind |-> kind, doc |-> doc]
InputFile(kind, rows) == [kind |-> kind, rows |-> rows]

\* Rules a configuration document of the run may hold: a valid one, one
\* with a negative tolerance, one with a non-numeric target.
RunRules == {Rule(Num(1), 1), Rule(Num(1), -1), Rule(NonNumeric, 1)}

ConfigFiles ==
    {ConfigFile("missing", NoRules), ConfigFile("unparsable", NoRules)}
        \cup {ConfigFile("ok", RulesDoc(S, r)) : S \in SUBSET Keys, r \in RunRules}

\* A series of one (machine, metric): n rows, on consecutive days or all on
\* one day, with a constant or a rising value.
SeriesKinds == {"daily_flat", "daily_rising", "same_day"}

SeriesShapes ==
    {[n |-> 0, kind |-> "daily_flat"], [n |-> MinPoints - 1, kind |-> "daily_rising"]}
        \cup [n : MinPoints..(MinPoints + MaxExtra), kind : SeriesKinds]

Row(key, shape, i) ==
    [Date       |-> IF shape.kind = "same_day" THEN 0 ELSE i - 1,
     Machine_ID |-> key[1],
     Metric     |-> key[2],
     Value      |-> IF shape.kind = "daily_flat" THEN 1 ELSE i - 1]

Series(key, shape) == [i \in 1..shape.n |-> Row(key, shape, i)]

\* The rows of a and of b taken in turn, a first.
RECURSIVE Interleave(_, _)
Interleave(a, b) ==
    IF a = <<>> THEN b
    ELSE IF b = <<>> THEN a
    ELSE <<Head(a), Head(b)>> \o Interleave(Tail(a), Tail(b))

\* The sheets of the run: the series of two keys, one after the other or
\* row by row in turn.
Tables ==
    LET pairs == {q \in Keys \X Keys : q[1] # q[2]}
    IN  {Series(p[1], s1) \o Series(p[2], s2) :
            p \in pairs, s1 \in SeriesShapes, s2 \in SeriesShapes}
        \cup {Interleave(Series(p[1], s1), Series(p[2], s2)) :
                p \in pairs, s1 \in SeriesShapes, s2 \in SeriesShapes}

InputFiles ==
    {InputFile("unreadable", <<>>), InputFile("bad_dates", <<>>)}
        \cup {InputFile("ok", t) : t \in Tables}

RowKey(row) == <<row.Machine_ID, row.Metric>>

groupby_Encounter(rows) ==
    LET first(k) == CHOOSE i \in DOMAIN rows :
                        /\ RowKey(rows[i]) = k
                        /\ \A j \in 1..(i - 1) : RowKey(rows[j]) # k
        present  == {RowKey(rows[i]) : i \in DOMAIN rows}
        pos(k)   == Cardinality({j \in present : first(j) <= first(k)})
    IN  [i \in 1..Cardinality(present) |-> CHOOSE k \in present : pos(k) = i]

\* The keys df.groupby(['Machine_ID', 'Metric']) iterates over: the keys that
\* occur in the rows, in sorted key order (sort=True is the default).
groupby(rows) ==
    SelectSeq(KeyOrder, LAMBDA k : \E i \in DOMAIN rows : RowKey(rows[i]) = k)

\* group_data for a key: its rows, in row order.
GroupData(rows, key) == SelectSeq(rows, LAMBDA r : RowKey(r) = key)

Column(rows, name) == [i \in DOMAIN rows |-> rows[i][name]]

Init ==
    /\ pc = "load"
    /\ config_file \in ConfigFiles
    /\ input_file \in InputFiles
    /\ rules = NoRules
    /\ df = <<>> /\ results = <<>> /\ QC_Status = <<>>
    /\ groups = <<>> /\ visited = <<>> /\ analyzed = <<>>
    /\ drift_alerts = <<>>
    /\ exit_code = -1
    /\ sinks = {}
    /\ args = NoCall
    /\ ret = NoReturn

\* 1. Load Resources and Data: the engine's constructor, read_excel and
\* to_datetime, all inside one try block that exits with status 1.
LoadResources ==
    /\ pc = "load"
    /\ drift_alerts' = <<>>
    /\ IF config_file.kind # "ok"
       THEN /\ pc' = "fatal_load" /\ exit_code' = 1
            /\ UNCHANGED <<rules, df>>
       ELSE /\ rules' = config_file.doc
            /\ IF input_file.kind # "ok"
               THEN /\ pc' = "fatal_load" /\ exit_code' = 1
                    /\ UNCHANGED df
               ELSE /\ df' = input_file.rows
                    /\ pc' = "check"
                    /\ UNCHANGED exit_code
    /\ UNCHANGED <<config_file, input_file, results, QC_Status, groups, visited,
                   analyzed, sinks, args, ret>>

CheckRow_Prepend ==
    /\ pc = "check"
    /\ Len(results) < Len(df)
    /\ LET row    == df[Len(results) + 1]
           status == check_compliance(rules, row.Machine_ID, row.Metric, row.Value)
       IN  IF status = TypeError
           THEN /\ pc' = "crashed_check" /\ exit_code' = 1
                /\ UNCHANGED results
           ELSE /\ results' = <<status>> \o results
                /\ UNCHANGED <<pc, exit_code>>
    /\ UNCHANGED <<config_file, input_file, rules, df, QC_Status, groups, visited,
                   analyzed, drift_alerts, sinks, args, ret>>

CheckRow_LogsAlert ==
    /\ pc = "check"
    /\ Len(results) < Len(df)
    /\ LET row    == df[Len(results) + 1]
           status == check_compliance(rules, row.Machine_ID, row.Metric, row.Value)
       IN  IF status = TypeError
           THEN /\ pc' = "crashed_check" /\ exit_code' = 1
                /\ UNCHANGED <<results, drift_alerts>>
           ELSE /\ results' = Append(results, status)
                /\ drift_alerts' =
                      IF status = UnknownConfig
                      THEN Append(drift_alerts,
                                  [machine |-> row.Machine_ID, metric |-> row.Metric,
                                   num |-> 0, den |-> 1])
                      ELSE drift_alerts
                /\ UNCHANGED <<pc, exit_code>>
    /\ UNCHANGED <<config_file, input_file, rules, df, QC_Status, groups, visited,
                   analyzed, sinks, args, ret>>

\* 2. Run Checks: one iteration of the loop over df.iterrows().  A rule
\* whose target is no number makes value - target raise; nothing catches it.
CheckRow ==
    /\ pc = "check"
    /\ Len(results) < Len(df)
    /\ LET row    == df[Len(results) + 1]
           status == check_compliance(rules, row.Machine_ID, row.Metric, row.Value)
       IN  IF status = TypeError
           THEN /\ pc' = "crashed_check" /\ exit_code' = 1
                /\ UNCHANGED results
           ELSE /\ results' = Append(results, status)
                /\ UNCHANGED <<pc, exit_code>>
    /\ UNCHANGED <<config_file, input_file, rules, df, QC_Status, groups, visited,
                   analyzed, drift_alerts, sinks, args, ret>>

\* The loop is over: df['QC_Status'] = results, then groups = df.groupby(...).
AttachStatus ==
    /\ pc = "check"
    /\ Len(results) = Len(df)
    /\ QC_Status' = results
    /\ groups' = groupby(df)
    /\ pc' = "trend"
    /\ UNCHANGED <<config_file, input_file, rules, df, results, visited, analyzed,
                   drift_alerts, exit_code, sinks, args, ret>>

\* 3. Trends and Plots: one iteration of the loop over the groups.
\* generate_plot catches its own errors and changes nothing of the engine.
TrendGroup ==
    /\ pc = "trend"
    /\ groups # <<>>
    /\ LET key        == Head(groups)
           group_data == GroupData(df, key)
       IN  /\ visited' = Append(visited, key)
           /\ groups' = Tail(groups)
           /\ IF HasRule(rules, key[1], key[2])
              THEN \E degenerate \in LinregressDegenerate :
                     LET out == analyze_drift(drift_alerts,
                                              Column(group_data, "Date"),
                                              Column(group_data, "Value"),
                                              key[1], key[2], degenerate)
                     IN  /\ analyzed' = Append(analyzed, key)
                         /\ drift_alerts' = out.alerts
                         /\ IF out.raised
                            THEN pc' = "crashed_trend" /\ exit_code' = 1
                            ELSE UNCHANGED <<pc, exit_code>>
              ELSE UNCHANGED <<analyzed, drift_alerts, pc, exit_code>>
    /\ UNCHANGED <<config_file, input_file, rules, df, results, QC_Status, sinks,
                   args, ret>>

\* 4. Save Everything and the final summary: save_to_database and to_excel
\* each catch their own failure; main() then returns, exit status 0.
Report ==
    /\ pc = "trend"
    /\ groups = <<>>
    /\ sinks' \in SUBSET {"database", "excel"}
    /\ pc' = "done"
    /\ exit_code' = 0
    /\ UNCHANGED <<config_file, input_file, rules, df, results, QC_Status, groups,
                   visited, analyzed, drift_alerts, args, ret>>

Next ==
    \/ LoadResources
    \/ CheckRow
    \/ AttachStatus
    \/ TrendGroup
    \/ Report

Spec == Init /\ [][Next]_vars

----------------------------------------------------------------------------
(* Properties of the run *)

StatusAttached == pc \in {"trend", "done", "crashed_trend"}

(* C3: after the compliance pass every input record has exactly one        *)
(* compliance result, the i-th result is the result of checking the i-th   *)
(* record, whether or not a rule exists for it: same length, same order.   *)

C3_OneResultPerRecordInOrder ==
    StatusAttached =>
        /\ df = input_file.rows
        /\ Len(QC_Status) = Len(df)
        /\ \A i \in DOMAIN df :
              QC_Status[i] = check_compliance(rules, df[i].Machine_ID,
                                              df[i].Metric, df[i].Value)

C3_Witness ==
    /\ StatusAttached
    /\ \E i, j \in DOMAIN df :
          /\ i < j
          /\ QC_Status[i] = UnknownConfig
          /\ QC_Status[j].status = "FAIL"
    /\ \E i, j \in DOMAIN df :
          /\ i < j
          /\ QC_Status[i].status = "PASS"
          /\ QC_Status[j] = UnknownConfig

(* C7: a configuration holding a rule with tolerance_abs < 0 or a          *)
(* non-numeric target fails the load: the run aborts before any record is  *)
(* evaluated, and the invalid rule is never used in a compliance check.    *)

InvalidRule(rule) == rule.tolerance_abs < 0 \/ rule.target.type # "number"

InvalidConfig ==
    /\ config_file.kind = "ok"
    /\ \E m \in DOMAIN config_file.doc : \E x \in DOMAIN config_file.doc[m] :
          InvalidRule(config_file.doc[m][x])

C7_InvalidRuleFailsLoad ==
    InvalidConfig =>
        /\ pc \in {"load", "fatal_load"}
        /\ results = <<>>

(* C8: a missing or unparsable configuration, or unreadable input or       *)
(* dates, stops the run with exit status 1 before any compliance check,    *)
(* drift analysis or sink; a run that passes loading completes with exit   *)
(* status 0, also with FAIL results or drift alerts.                       *)

LoadFails == config_file.kind # "ok" \/ input_file.kind # "ok"

Running == pc \in {"load", "check", "trend"}

C8_ExitStatus ==
    /\ LoadFails =>
          /\ pc \in {"load", "fatal_load"}
          /\ pc = "fatal_load" => exit_code = 1
          /\ results = <<>> /\ QC_Status = <<>>
          /\ visited = <<>> /\ analyzed = <<>> /\ drift_alerts = <<>>
          /\ sinks = {}
    /\ (~LoadFails /\ ~Running) => (pc = "done" /\ exit_code = 0)

(* C9: the drift analyzer is called once for every (machine, metric) group *)
(* that has a configured rule, and the alert list holds the alerts in      *)
(* group encounter order: the alert of the group whose first record comes  *)
(* earlier in the input comes first.                                       *)

FirstRow(key) == CHOOSE i \in DOMAIN df :
                    /\ RowKey(df[i]) = key
                    /\ \A j \in 1..(i - 1) : RowKey(df[j]) # key

AlertKey(alert) == <<alert.machine, alert.metric>>

ConfiguredGroups ==
    {RowKey(df[i]) : i \in {j \in DOMAIN df : HasRule(rules, df[j].Machine_ID, df[j].Metric)}}

CalledOncePerConfiguredGroup ==
    /\ {analyzed[i] : i \in DOMAIN analyzed} = ConfiguredGroups
    /\ \A i, j \in DOMAIN analyzed : analyzed[i] = analyzed[j] => i = j

C9_AlertsInEncounterOrder ==
    /\ pc = "done" => CalledOncePerConfiguredGroup
    /\ \A i, j \in DOMAIN drift_alerts :
          i < j => FirstRow(AlertKey(drift_alerts[i])) < FirstRow(AlertKey(drift_alerts[j]))

(* C9 as amended: the trend loop takes the groups in ascending             *)
(* (machine, metric) key order and calls the analyzer once on each group   *)
(* it takes that has a configured rule and on no other; the alert list     *)
(* holds the alerts in that key order; a run that reaches its report has   *)
(* taken every group.                                                      *)

KeysAscending(s) == \A i, j \in DOMAIN s : i < j => Rank(s[i]) < Rank(s[j])

C9_AlertsInKeyOrder ==
    StatusAttached =>
        /\ {(visited \o groups)[i] : i \in DOMAIN (visited \o groups)}
              = {RowKey(df[i]) : i \in DOMAIN df}
        /\ KeysAscending(visited \o groups)
        /\ analyzed = SelectSeq(visited, LAMBDA k : k \in ConfiguredGroups)
        /\ KeysAscending([i \in DOMAIN drift_alerts |-> AlertKey(drift_alerts[i])])
        /\ \A i \in DOMAIN drift_alerts :
              \E j \in DOMAIN analyzed : analyzed[j] = AlertKey(drift_alerts[i])
        /\ pc = "done" => (groups = <<>> /\ CalledOncePerConfiguredGroup)

C9_Witness ==
    /\ pc = "done"
    /\ Len(drift_alerts) = 2
    /\ FirstRow(AlertKey(drift_alerts[1])) > FirstRow(AlertKey(drift_alerts[2]))
    /\ analyzed = visited

(* C10: check_compliance and analyze_drift are pure: a call leaves all     *)
(* engine state, the rule mapping and the alert accumulator, unchanged.    *)

====
